---- MODULE Spec2Model ----
(***************************************************************************)
(* PrintFilterData (src/src/ufo/filters/PrintFilterData.cc): every MPI     *)
(* rank runs doFilter = getAllData ; printAllData.  The ranks meet only in *)
(* the collective allGatherv calls.  Vectors are 0-based in the source and *)
(* are sequences here; At(v, i) reads element i of the 0-based vector.     *)
(***************************************************************************)
EXTENDS Integers, Sequences, FiniteSets, TLC

VARIABLES
  nw,          \* number of MPI ranks of this run
  fields,      \* parameters_.variables: the declared fields, in order
  index,       \* index[w]: obsdb_.index() on rank w (original row numbers)
  applyRows,   \* rows for which processWhere yields true
  locminP,     \* parameters_.locmin
  locmaxP,     \* parameters_.locmax
  printRank0,  \* parameters_.printRank0
  maxTextWidth,\* parameters_.maxTextWidth
  columnWidth, \* parameters_.columnWidth
  pc,          \* pc[w]: where rank w stands in doFilter
  fi,          \* fi[w]: 1-based position in parameters_.variables
  si,          \* si[w]: 0-based position in the channel / level loop
  calls,       \* calls[w]: the allGatherv calls rank w has made, in order
  filterData,  \* filterData[w]: filterData_ of rank w, key -> gathered column
  globalApply, \* globalApply[w] after its gather
  globalIndex, \* globalIndex[w] after its gather
  log,         \* log[w]: what rank w has done so far, in order
  pages,       \* pages[w]: the table pages rank w has written to os_
  oob,         \* oob[w]: out-of-range vector reads made by rank w
  runNo,       \* invocation number of doFilter on the same dataset
  prev,        \* how the previous invocation ended on rank 0
  simulatedVars,       \* odb.assimvariables(): the simulated variables, in order
  variablesParam,      \* params_.variables: the optional list of operator variables
  ovecNlocs,           \* ovec.nlocs()
  sfcPc,               \* where the ObsSfcCorrected object stands
  operatorVars_,       \* ObsSfcCorrected::operatorVars_
  operatorVarIndices_, \* ObsSfcCorrected::operatorVarIndices_
  operators_,          \* ObsSfcCorrected::operators_: the variable each operator is for
  jpos,                \* position of simulateObs in operatorVarIndices_
  hofx,                \* the local vector hofx of simulateObs
  ovec,                \* the observation vector, 0-based as a sequence
  used                 \* the reads of operators_ made so far, in order

\* The state of PrintFilterData and of its dataset.
filterVars == <<nw, fields, index, applyRows, locminP, locmaxP, printRank0,
                maxTextWidth, columnWidth, pc, fi, si, calls, filterData,
                globalApply, globalIndex, log, pages, oob, runNo, prev>>

\* The state of ObsSfcCorrected and of its observation vector.
sfcVars == <<simulatedVars, variablesParam, ovecNlocs, sfcPc, operatorVars_,
             operatorVarIndices_, operators_, jpos, hofx, ovec, used>>

vars == <<filterVars, sfcVars>>

(***************************************************************************)
(* Bounds of the model.                                                    *)
(***************************************************************************)
MaxRow == 3        \* original row numbers are 0..MaxRow
MaxRows == 3       \* rows that survive upstream filtering
MaxWorkers == 2    \* MPI ranks
MaxLoc == 3        \* configured minimum / maximum location are 0..MaxLoc
MaxRuns == 2       \* invocations compared with each other

Ranks == 0..(nw - 1)

Max(a, b) == IF a > b THEN a ELSE b
Min(a, b) == IF a < b THEN a ELSE b

\* Element i of a 0-based vector.
At(v, i) == v[i + 1]
InRange(v, i) == i >= 0 /\ i < Len(v)

RECURSIVE Concat(_, _, _)
\* f[from] \o ... \o f[to]
Concat(f, from, to) ==
  IF from > to THEN <<>> ELSE f[from] \o Concat(f, from + 1, to)

RECURSIVE SetToSeq(_)
\* The elements of a set of integers in ascending order (iteration of std::set).
SetToSeq(S) ==
  IF S = {} THEN <<>>
  ELSE LET m == CHOOSE x \in S : \A y \in S : x <= y
       IN <<m>> \o SetToSeq(S \ {m})

\* Integer division of C++ (truncation towards zero); b > 0.
TruncDiv(a, b) == IF a >= 0 THEN a \div b ELSE -((-a) \div b)

\* Characters printed for the integer n by operator<<.
Digits(n) ==
  IF n < 0 THEN (IF n > -10 THEN 2 ELSE 3) ELSE (IF n < 10 THEN 1 ELSE 2)

(***************************************************************************)
(* Fields and display keys.                                                *)
(***************************************************************************)
NoChannel == -1

Fld(group, var, varLen, dtype, channels, levels, nlevs, has) ==
  [group |-> group, var |-> var, varLen |-> varLen, dtype |-> dtype,
   channels |-> channels, levels |-> levels, nlevs |-> nlevs, has |-> has]

GroupLen(group) ==
  CASE group = "ObsValue" -> 8
    [] group = "MetaData" -> 8
    [] group = "GeoVaLs" -> 7
    [] group = "ObsDiag" -> 7
    [] group = "ObsBiasTerm" -> 11
    [] OTHER -> 0

\* Variable::size(): the number of channels, 1 for a field without channels.
VarSize(f) == IF Len(f.channels) = 0 THEN 1 ELSE Len(f.channels)

\* The channel number behind Variable::variable(ich).
ChannelOf(f, ich) == IF Len(f.channels) = 0 THEN NoChannel ELSE At(f.channels, ich)

\* group/variable, the string of Variable::fullName().
FullNameLen(f) == GroupLen(f.group) + 1 + f.varLen

getVariableNameAtLevel(f, level) ==
  [kind |-> "level", group |-> f.group, var |-> f.var, n |-> level]

getVariableNameWithChannel(f, ich) ==
  [kind |-> "name", group |-> f.group, var |-> f.var, n |-> ChannelOf(f, ich)]

\* Variable::fullName() as a key: the same string as the key of channel 0 of a
\* field without channels.
FullName(f) ==
  [kind |-> "name", group |-> f.group, var |-> f.var, n |-> NoChannel]

NameAtLevelLen(f, level) == FullNameLen(f) + 8 + Digits(level) + 1

NameWithChannelLen(f, ich) ==
  IF Len(f.channels) = 0 THEN FullNameLen(f)
  ELSE FullNameLen(f) + 1 + Digits(At(f.channels, ich))

isMultiLevelData(f) ==
  f.group = "GeoVaLs" \/ f.group = "ObsDiag" \/ f.group = "ObsBiasTerm"

\* Tags of the two gathers of printAllData.
ApplyTag == [kind |-> "apply", group |-> "", var |-> "", n |-> NoChannel]
IndexTag == [kind |-> "index", group |-> "", var |-> "", n |-> NoChannel]
NoKey == [kind |-> "none", group |-> "", var |-> "", n |-> NoChannel]

(***************************************************************************)
(* The backing store.  The value of a field at a row is a fixed injective  *)
(* function of the row; booleans are stored as booleans.                   *)
(***************************************************************************)
StoreValue(f, sub, row) ==
  IF f.dtype = "Bool" THEN (row % 2 = 0)
  ELSE 100 * f.varLen + 10 * (sub + 1) + row

\* std::vector<int>(b.begin(), b.end()) of a vector<bool>.
BoolToInt(b) == IF b THEN 1 ELSE 0

\* The local column of a fetch on rank w.
LocalColumn(f, sub, w) ==
  [j \in 1..Len(index[w]) |->
     IF f.dtype = "Bool" THEN BoolToInt(StoreValue(f, sub, index[w][j]))
     ELSE StoreValue(f, sub, index[w][j])]

\* obsdb_.globalNumLocs()
globalNumLocs == Len(Concat(index, 0, nw - 1))

(***************************************************************************)
(* getMaxVariableNameLength (lines 199-232); fd is filterData_.            *)
(***************************************************************************)
LocationLen == 8

SetMax(S) == CHOOSE x \in S : \A y \in S : y <= x

FieldNameLens(f, fd) ==
  IF isMultiLevelData(f)
  THEN {NameAtLevelLen(f, l) :
          l \in {x \in f.levels : getVariableNameAtLevel(f, x) \in DOMAIN fd}}
  ELSE IF Len(f.channels) = 0
       THEN {FullNameLen(f)}
       ELSE {NameWithChannelLen(f, ich) : ich \in 0..(VarSize(f) - 1)}

getMaxVariableNameLength(fd) ==
  SetMax({LocationLen} \cup
         UNION {FieldNameLens(fields[i], fd) : i \in 1..Len(fields)})

(***************************************************************************)
(* printAllData, lines 236-246: the effective bounds and the page size.    *)
(***************************************************************************)
\* locminOf without the clamp of line 238.
locminUnclamped(nlocs) == locminP

locminOf(nlocs) == IF locminP >= nlocs THEN nlocs - 1 ELSE locminP

locmaxOf(nlocs) == IF locmaxP = 0 THEN nlocs ELSE locmaxP

\* nlocsPerRowOf without the 3 characters of " | ".
nlocsPerRowNoSeparator(fd) ==
  Max(TruncDiv(maxTextWidth - getMaxVariableNameLength(fd), columnWidth), 1)

nlocsPerRowOf(fd) ==
  Max(TruncDiv(maxTextWidth - getMaxVariableNameLength(fd), columnWidth + 3), 1)

(***************************************************************************)
(* printAllData, lines 271-283: std::stable_sort of the positions by       *)
(* globalIndex, as a stable insertion sort.                                *)
(***************************************************************************)
\* SortLess with the comparison reversed.
SortGreater(gi, idx1, idx2) == At(gi, idx1) > At(gi, idx2)

\* The comparator of line 274.
SortLess(gi, idx1, idx2) == At(gi, idx1) < At(gi, idx2)

RECURSIVE InsertSorted(_, _, _)
\* idx goes behind every element that is not greater than it (stability).
InsertSorted(s, idx, gi) ==
  IF s = <<>> THEN <<idx>>
  ELSE IF SortLess(gi, idx, Head(s))
       THEN <<idx>> \o s
       ELSE <<Head(s)>> \o InsertSorted(Tail(s), idx, gi)

RECURSIVE StableSortFrom(_, _, _, _)
StableSortFrom(s, idx, nlocs, gi) ==
  IF idx >= nlocs THEN s
  ELSE StableSortFrom(InsertSorted(s, idx, gi), idx + 1, nlocs, gi)

sortIndicesOf(gi, nlocs) == StableSortFrom(<<>>, 0, nlocs, gi)

permutedGlobalIndexOf(gi, sidx, nlocs) ==
  [k \in 1..nlocs |-> At(gi, sidx[k])]

(***************************************************************************)
(* printAllData, lines 285-300: the locations to print.  sortIndices is    *)
(* read at loc, the original row number (line 296 and 298); when loc is    *)
(* not below nlocs the read is out of range: garbage[loc] stands for what  *)
(* the read returns, and garbageApply for globalApply read out of range.   *)
(***************************************************************************)
ReadSortIndices(sidx, loc, garbage) ==
  IF InRange(sidx, loc) THEN At(sidx, loc) ELSE garbage[loc]

ReadGlobalApply(ga, i, garbageApply) ==
  IF InRange(ga, i) THEN At(ga, i) # 0 ELSE garbageApply

\* The index expression of lines 296 and 298.
PrintIndex(sidx, idx, loc, garbage) == ReadSortIndices(sidx, loc, garbage)

\* InWindow with the maximum included.
InWindowClosed(loc, locmin, locmax) == loc >= locmin /\ loc <= locmax

\* The range test of line 296.
InWindow(loc, locmin, locmax) == loc >= locmin /\ loc < locmax

Selected(ga, sidx, idx, loc, locmin, locmax, garbage, garbageApply) ==
  /\ InWindow(loc, locmin, locmax)
  /\ ReadGlobalApply(ga, PrintIndex(sidx, idx, loc, garbage), garbageApply)

RECURSIVE SelectFrom(_, _, _, _, _, _, _, _, _)
\* The loop of line 294 from idx on: <<locsToPrint, indicesToPrint>>.
SelectFrom(idx, nlocs, perm, ga, sidx, locmin, locmax, garbage, garbageApply) ==
  IF idx >= nlocs THEN <<<<>>, <<>>>>
  ELSE LET loc == At(perm, idx)
           rest == SelectFrom(idx + 1, nlocs, perm, ga, sidx, locmin, locmax,
                              garbage, garbageApply)
       IN IF Selected(ga, sidx, idx, loc, locmin, locmax, garbage, garbageApply)
          THEN <<<<loc>> \o rest[1],
                 <<PrintIndex(sidx, idx, loc, garbage)>> \o rest[2]>>
          ELSE rest

\* The original row numbers at which line 296 reads sortIndices out of range.
OobLocs(perm, nlocs, locmin, locmax) ==
  {perm[k] : k \in {j \in 1..nlocs :
       InWindow(perm[j], locmin, locmax) /\ ~(perm[j] >= 0 /\ perm[j] < nlocs)}}

(***************************************************************************)
(* printAllData, lines 308-321: rows of nlocsPerRow locations.             *)
(***************************************************************************)
RECURSIVE Paginate(_, _)
Paginate(s, nlocsPerRow) ==
  IF Len(s) = 0 THEN <<>>
  ELSE IF Len(s) <= nlocsPerRow THEN <<s>>
       ELSE <<SubSeq(s, 1, nlocsPerRow)>> \o
            Paginate(SubSeq(s, nlocsPerRow + 1, Len(s)), nlocsPerRow)

(***************************************************************************)
(* printAllData, lines 329-394, and printVariable, lines 122-142: the rows *)
(* of one page.  A cell read out of range yields garbageCell.              *)
(***************************************************************************)
printVariable(col, loc, garbageCell) ==
  IF InRange(col, loc) THEN At(col, loc) ELSE garbageCell

RowOf(key, fd, idxGroup, garbageCell) ==
  [key |-> key,
   cells |-> [k \in 1..Len(idxGroup) |-> printVariable(fd[key], idxGroup[k], garbageCell)]]

RECURSIVE KeysFrom(_, _, _)
\* The keys among ks[from..] that filterData_ holds, in order.
KeysFrom(ks, from, fd) ==
  IF from > Len(ks) THEN <<>>
  ELSE (IF ks[from] \in DOMAIN fd THEN <<ks[from]>> ELSE <<>>)
       \o KeysFrom(ks, from + 1, fd)

\* The keys the renderer looks up for a field (lines 347-365).
RenderKeys(f) ==
  IF isMultiLevelData(f)
  THEN LET ls == SetToSeq(f.levels)
       IN [k \in 1..Len(ls) |-> getVariableNameAtLevel(f, ls[k])]
  ELSE [k \in 1..VarSize(f) |-> getVariableNameWithChannel(f, k - 1)]

\* The keys of the rows printed for a field on every page.
PrintedKeysOf(f, fd) ==
  IF ~f.has THEN <<>> ELSE KeysFrom(RenderKeys(f), 1, fd)

RECURSIVE PrintedKeysFrom(_, _)
PrintedKeysFrom(i, fd) ==
  IF i > Len(fields) THEN <<>>
  ELSE PrintedKeysOf(fields[i], fd) \o PrintedKeysFrom(i + 1, fd)

PageOf(locGroup, idxGroup, fd, garbageCell) ==
  LET ks == PrintedKeysFrom(1, fd)
  IN [locs |-> locGroup, idxs |-> idxGroup,
      rows |-> [k \in 1..Len(ks) |-> RowOf(ks[k], fd, idxGroup, garbageCell)]]

\* The pages of lines 302-394 for the selection sel = <<locs, indices>>.
PagesOf(sel, fd, garbageCell) ==
  LET n == nlocsPerRowOf(fd)
      lp == Paginate(sel[1], n)
      ip == Paginate(sel[2], n)
  IN [k \in 1..Len(lp) |-> PageOf(lp[k], ip[k], fd, garbageCell)]

(***************************************************************************)
(* The configurations and datasets the model runs on.                      *)
(***************************************************************************)
PlainInt == Fld("ObsValue", "a", 1, "Integer", <<>>, {}, 0, TRUE)
ChanFloat == Fld("ObsValue", "b", 1, "Float", <<1, 2>>, {}, 0, TRUE)
LevFloat == Fld("GeoVaLs", "t", 1, "Float", <<>>, {0, 2}, 2, TRUE)
LevInt == Fld("GeoVaLs", "q", 1, "Integer", <<>>, {0}, 1, TRUE)
Absent == Fld("MetaData", "z", 1, "Float", <<>>, {}, 0, FALSE)
BoolFld == Fld("MetaData", "f", 1, "Bool", <<>>, {}, 0, TRUE)
BadType == Fld("ObsValue", "n", 1, "None", <<>>, {}, 0, TRUE)

FieldConfigs ==
  {<<PlainInt>>, <<ChanFloat>>, <<LevFloat, PlainInt>>, <<LevInt>>,
   <<Absent, BoolFld>>, <<BadType>>}

\* Sequences without repetition over the set R.
SeqsNoRep(R) ==
  {s \in UNION {[1..k -> R] : k \in 0..Cardinality(R)} :
     \A i, j \in 1..Len(s) : i # j => s[i] # s[j]}

RowsOf(idx, n) == UNION {{idx[w][j] : j \in 1..Len(idx[w])} : w \in 0..(n - 1)}

\* Every assignment of the rows R to n ranks, in every local order.
Layouts(n, R) ==
  {idx \in [0..(n - 1) -> SeqsNoRep(R)] :
     /\ RowsOf(idx, n) = R
     /\ Len(Concat(idx, 0, n - 1)) = Cardinality(R)}

Ascending(s) == \A i, j \in 1..Len(s) : i < j => s[i] < s[j]

\* The assignments in which every rank holds its rows in ascending order.
AscendingLayouts(n, R) ==
  {idx \in Layouts(n, R) : \A w \in 0..(n - 1) : Ascending(idx[w])}

\* The rows left of 0..MaxRow after the upstream filtering.
Datasets == {R \in SUBSET (0..MaxRow) : Cardinality(R) <= MaxRows}

\* The datasets from which nothing was filtered.
FullDatasets == {0..(k - 1) : k \in 0..MaxRows}

\* The same value on every one of n ranks.
OnAll(n, v) == [w \in 0..(n - 1) |-> v]

\* The state of every rank before doFilter.
Fresh(n) ==
  /\ pc = OnAll(n, "start")
  /\ fi = OnAll(n, 1)
  /\ si = OnAll(n, 0)
  /\ calls = OnAll(n, <<>>)
  /\ filterData = OnAll(n, <<>>)
  /\ globalApply = OnAll(n, <<>>)
  /\ globalIndex = OnAll(n, <<>>)
  /\ log = OnAll(n, <<>>)
  /\ pages = OnAll(n, <<>>)
  /\ oob = OnAll(n, {})

\* No ObsSfcCorrected operator is configured.
NoSfcCorrected ==
  /\ simulatedVars = <<>>
  /\ variablesParam = [set |-> FALSE, list |-> <<>>]
  /\ ovecNlocs = 0
  /\ sfcPc = "none"
  /\ operatorVars_ = <<>>
  /\ operatorVarIndices_ = <<>>
  /\ operators_ = <<>>
  /\ jpos = 0
  /\ hofx = <<>>
  /\ ovec = <<>>
  /\ used = <<>>

\* FC: the field lists; DS: the datasets; anyOrder: every local order of the rows, or the
\* ascending ones; anyMask: every apply vector, or the all-true one.
InitWith(FC, DS, anyOrder, anyMask, R0, TW, CW) ==
  /\ nw \in 1..MaxWorkers
  /\ fields \in FC
  /\ \E R \in DS :
       index \in (IF anyOrder THEN Layouts(nw, R) ELSE AscendingLayouts(nw, R))
  /\ applyRows \in (IF anyMask THEN SUBSET RowsOf(index, nw) ELSE {RowsOf(index, nw)})
  /\ locminP \in 0..MaxLoc
  /\ locmaxP \in 0..MaxLoc
  /\ printRank0 \in R0
  /\ maxTextWidth \in TW
  /\ columnWidth \in CW
  /\ Fresh(nw)
  /\ runNo = 1
  /\ prev = [pc |-> "none", pages |-> <<>>, oob |-> {}]
  /\ NoSfcCorrected

(***************************************************************************)
(* doFilter, lines 397-418.                                                *)
(***************************************************************************)
Ev(kind, key) == <<kind, key>>

Logged(w, evs) == log' = [log EXCEPT ![w] = log[w] \o evs]

\* Lines 398-412: the welcome message; getAllData comes next.
DoFilter(w) ==
  /\ pc[w] = "start"
  /\ pc' = [pc EXCEPT ![w] = IF Len(fields) = 0 THEN "printAllData" ELSE "getAllData"]
  /\ Logged(w, <<Ev("banner", NoKey)>>)
  /\ UNCHANGED <<nw, fields, index, applyRows, locminP, locmaxP, printRank0,
                 maxTextWidth, columnWidth, fi, si, calls, filterData,
                 globalApply, globalIndex, pages, oob, runNo, prev>>
  /\ UNCHANGED sfcVars

(***************************************************************************)
(* getAllData (lines 163-197) with getData (43-102) and getMultiLevelData  *)
(* (104-120): one step handles one field, channel or level.                *)
(***************************************************************************)
ValidDtypes == {"Integer", "Float", "String", "DateTime", "Bool"}

\* The sub-items (channels or levels) the loops of a field run over.
NItems(f) ==
  IF f.dtype = "Float" /\ isMultiLevelData(f) THEN Cardinality(f.levels)
  ELSE VarSize(f)

\* The position after sub-item s of field i.
NextFi(i, s) == IF s + 1 < NItems(fields[i]) THEN i ELSE i + 1
NextSi(i, s) == IF s + 1 < NItems(fields[i]) THEN s + 1 ELSE 0
NextPc(i, s) == IF NextFi(i, s) > Len(fields) THEN "printAllData" ELSE "getAllData"

\* An allGatherv call: the contribution is posted, the rank waits.
Posted(w, tag, data) ==
  calls' = [calls EXCEPT ![w] = Append(calls[w], [tag |-> tag, data |-> data])]

Advance(w, i, s) ==
  /\ fi' = [fi EXCEPT ![w] = NextFi(i, s)]
  /\ si' = [si EXCEPT ![w] = NextSi(i, s)]

GetAllData(w) ==
  /\ pc[w] = "getAllData"
  /\ LET i == fi[w]
         s == si[w]
         f == fields[i]
     IN IF ~f.has
        THEN \* line 194
             /\ Logged(w, <<Ev("note", FullName(f))>>)
             /\ fi' = [fi EXCEPT ![w] = i + 1]
             /\ si' = [si EXCEPT ![w] = 0]
             /\ pc' = [pc EXCEPT ![w] = IF i + 1 > Len(fields) THEN "printAllData"
                                        ELSE "getAllData"]
             /\ UNCHANGED calls
        ELSE IF f.dtype \notin ValidDtypes
        THEN \* line 191
             /\ Logged(w, <<Ev("badParameter", FullName(f))>>)
             /\ pc' = [pc EXCEPT ![w] = "error"]
             /\ UNCHANGED <<fi, si, calls>>
        ELSE IF f.dtype = "Float" /\ isMultiLevelData(f)
        THEN \* getMultiLevelData
             IF NItems(f) = 0
             THEN /\ Advance(w, i, s)
                  /\ pc' = [pc EXCEPT ![w] = NextPc(i, s)]
                  /\ UNCHANGED <<calls, log>>
             ELSE LET level == SetToSeq(f.levels)[s + 1]
                      key == getVariableNameAtLevel(f, level)
                  IN IF level < 0 \/ level >= f.nlevs
                     THEN /\ Logged(w, <<Ev("note", key)>>)
                          /\ Advance(w, i, s)
                          /\ pc' = [pc EXCEPT ![w] = NextPc(i, s)]
                          /\ UNCHANGED calls
                     ELSE /\ Logged(w, <<Ev("fetch", key), Ev("gather", key)>>)
                          /\ Posted(w, key, LocalColumn(f, level, w))
                          /\ pc' = [pc EXCEPT ![w] = "gather"]
                          /\ UNCHANGED <<fi, si>>
        ELSE \* getData
             LET key == getVariableNameWithChannel(f, s)
             IN \E present \in BOOLEAN :
                  /\ (Len(f.channels) = 0 => present)
                  /\ IF present
                     THEN /\ Logged(w, <<Ev("fetch", key), Ev("gather", key)>>)
                          /\ Posted(w, key, LocalColumn(f, s, w))
                          /\ pc' = [pc EXCEPT ![w] = "gather"]
                          /\ UNCHANGED <<fi, si>>
                     ELSE \* lines 61-65: the note, then continue
                          /\ Logged(w, <<Ev("note", key)>>)
                          /\ Advance(w, i, s)
                          /\ pc' = [pc EXCEPT ![w] = NextPc(i, s)]
                          /\ UNCHANGED calls
  /\ UNCHANGED <<nw, fields, index, applyRows, locminP, locmaxP, printRank0,
                 maxTextWidth, columnWidth, filterData, globalApply, globalIndex,
                 pages, oob, runNo, prev>>
  /\ UNCHANGED sfcVars

(***************************************************************************)
(* allGatherv: the k-th call of a rank completes when every rank has made  *)
(* its k-th call; it returns the k-th contributions in rank order.  The    *)
(* code after the call runs on to the next step of the rank.               *)
(***************************************************************************)
Gathered(k) == Concat([v \in Ranks |-> calls[v][k].data], 0, nw - 1)

allGatherv(w) ==
  /\ pc[w] = "gather"
  /\ LET k == Len(calls[w])
         tag == calls[w][k].tag
     IN /\ \A v \in Ranks : Len(calls[v]) >= k
        /\ IF tag = ApplyTag
           THEN \* line 254, and lines 264-266: obsdb_.index() is gathered next
                /\ globalApply' = [globalApply EXCEPT ![w] = Gathered(k)]
                /\ Logged(w, <<Ev("gather", IndexTag)>>)
                /\ Posted(w, IndexTag, index[w])
                /\ UNCHANGED <<pc, globalIndex, filterData, fi, si>>
           ELSE IF tag = IndexTag
           THEN \* line 266
                /\ globalIndex' = [globalIndex EXCEPT ![w] = Gathered(k)]
                /\ pc' = [pc EXCEPT ![w] = "sort"]
                /\ UNCHANGED <<globalApply, filterData, fi, si, calls, log>>
           ELSE \* lines 52, 68, 83, 99, 118: filterData_[key] = gathered column
                /\ filterData' = [filterData EXCEPT ![w] =
                     [key \in (DOMAIN filterData[w]) \cup {tag} |->
                        IF key = tag THEN Gathered(k) ELSE filterData[w][key]]]
                /\ Advance(w, fi[w], si[w])
                /\ pc' = [pc EXCEPT ![w] = NextPc(fi[w], si[w])]
                /\ UNCHANGED <<globalApply, globalIndex, calls, log>>
  /\ UNCHANGED <<nw, fields, index, applyRows, locminP, locmaxP, printRank0,
                 maxTextWidth, columnWidth, pages, oob, runNo, prev>>
  /\ UNCHANGED sfcVars

(***************************************************************************)
(* printAllData, lines 234-254: the bounds, the check of the bounds, and   *)
(* the gather of the apply vector.                                         *)
(***************************************************************************)
\* processWhere on rank w: one entry per local row.
LocalApply(w) ==
  [j \in 1..Len(index[w]) |-> BoolToInt(index[w][j] \in applyRows)]

\* Zeroed with the rank test inverted.
ZeroedOnRankZero(w) == printRank0 /\ w = 0

\* Lines 251-253: the ranks whose apply vector is zeroed.
Zeroed(w) == printRank0 /\ w # 0

\* BadBounds off by one.
BadBoundsLax(locmin, locmax) == locmin > locmax + 1

\* The check of line 240.
BadBounds(locmin, locmax) == locmin > locmax

printAllData(w) ==
  /\ pc[w] = "printAllData"
  /\ LET nlocs == globalNumLocs
     IN IF BadBounds(locminOf(nlocs), locmaxOf(nlocs))
        THEN /\ Logged(w, <<Ev("badValue", NoKey)>>)
             /\ pc' = [pc EXCEPT ![w] = "error"]
             /\ UNCHANGED calls
        ELSE /\ Logged(w, <<Ev("gather", ApplyTag)>>)
             /\ Posted(w, ApplyTag,
                       IF Zeroed(w) THEN [j \in 1..Len(index[w]) |-> 0]
                       ELSE LocalApply(w))
             /\ pc' = [pc EXCEPT ![w] = "gather"]
  /\ UNCHANGED <<nw, fields, index, applyRows, locminP, locmaxP, printRank0,
                 maxTextWidth, columnWidth, fi, si, filterData, globalApply,
                 globalIndex, pages, oob, runNo, prev>>
  /\ UNCHANGED sfcVars

(***************************************************************************)
(* printAllData, lines 268-394: sort, select, paginate, print.  A read     *)
(* out of range is undefined behaviour: it yields any value, or the rank   *)
(* crashes.                                                                *)
(***************************************************************************)
GarbageIndex(nlocs) == (-1)..nlocs
GarbageCells == {-1, 0}

\* The reads out of range made while selecting and printing.
OobReads(ol, garbage, sel, fd, nlocs) ==
  {<<"sortIndices", loc>> : loc \in ol}
  \cup {<<"globalApply", garbage[loc]>> :
          loc \in {l \in ol : ~(garbage[l] >= 0 /\ garbage[l] < nlocs)}}
  \cup {<<"filterData", sel[2][k]>> :
          k \in {j \in 1..Len(sel[2]) :
                   /\ Len(PrintedKeysFrom(1, fd)) > 0
                   /\ \E key \in DOMAIN fd : ~InRange(fd[key], sel[2][j])}}

PrintTable(w) ==
  /\ pc[w] = "sort"
  /\ LET nlocs == globalNumLocs
         gi == globalIndex[w]
         ga == globalApply[w]
         fd == filterData[w]
         locmin == locminOf(nlocs)
         locmax == locmaxOf(nlocs)
         sidx == sortIndicesOf(gi, nlocs)
         perm == permutedGlobalIndexOf(gi, sidx, nlocs)
         ol == OobLocs(perm, nlocs, locmin, locmax)
     IN \E garbage \in [ol -> GarbageIndex(nlocs)], garbageApply \in BOOLEAN,
           garbageCell \in GarbageCells, crash \in BOOLEAN :
          LET sel == SelectFrom(0, nlocs, perm, ga, sidx, locmin, locmax,
                                garbage, garbageApply)
              reads == OobReads(ol, garbage, sel, fd, nlocs)
          IN /\ (crash => reads # {})
             /\ (garbageApply => \E rd \in reads : rd[1] = "globalApply")
             /\ (garbageCell # 0 => \E rd \in reads : rd[1] = "filterData")
             /\ oob' = [oob EXCEPT ![w] = reads]
             /\ IF crash
                THEN /\ pc' = [pc EXCEPT ![w] = "crashed"]
                     /\ UNCHANGED <<pages, log>>
                ELSE /\ pc' = [pc EXCEPT ![w] = "done"]
                     /\ pages' = [pages EXCEPT ![w] = PagesOf(sel, fd, garbageCell)]
                     /\ Logged(w, <<Ev("table", NoKey)>>)
  /\ UNCHANGED <<nw, fields, index, applyRows, locminP, locmaxP, printRank0,
                 maxTextWidth, columnWidth, fi, si, calls, filterData,
                 globalApply, globalIndex, runNo, prev>>
  /\ UNCHANGED sfcVars

(***************************************************************************)
(* A further invocation of doFilter on the same dataset, mask and          *)
(* configuration, distributed anew over the ranks.                         *)
(***************************************************************************)
Terminal(w) == pc[w] \in {"done", "error", "crashed"}

\* The next invocation runs on a single rank, its rows in any order.
Rerun ==
  /\ runNo < MaxRuns
  /\ \A w \in Ranks : Terminal(w)
  /\ runNo' = runNo + 1
  /\ prev' = [pc |-> pc[0], pages |-> pages[0], oob |-> oob[0]]
  /\ nw' = 1
  /\ index' \in Layouts(1, RowsOf(index, nw))
  /\ pc' = OnAll(1, "start")
  /\ fi' = OnAll(1, 1)
  /\ si' = OnAll(1, 0)
  /\ calls' = OnAll(1, <<>>)
  /\ filterData' = OnAll(1, <<>>)
  /\ globalApply' = OnAll(1, <<>>)
  /\ globalIndex' = OnAll(1, <<>>)
  /\ log' = OnAll(1, <<>>)
  /\ pages' = OnAll(1, <<>>)
  /\ oob' = OnAll(1, {})
  /\ UNCHANGED <<fields, applyRows, locminP, locmaxP, printRank0,
                 maxTextWidth, columnWidth>>
  /\ UNCHANGED sfcVars

Next ==
  \/ \E w \in Ranks : DoFilter(w)
  \/ \E w \in Ranks : GetAllData(w)
  \/ \E w \in Ranks : allGatherv(w)
  \/ \E w \in Ranks : printAllData(w)
  \/ \E w \in Ranks : PrintTable(w)

NextRerun == Next \/ Rerun

\* Every field list, on the datasets held in ascending order.
Init == InitWith(FieldConfigs, FullDatasets, FALSE, FALSE, {FALSE}, {30}, {7})

Spec == Init /\ [][Next]_vars

\* One plain field, on every dataset, layout and apply vector.
InitRows == InitWith({<<PlainInt>>}, Datasets, TRUE, TRUE, {FALSE}, {30}, {7})

SpecRows == InitRows /\ [][Next]_vars

\* Two invocations on the same dataset, in both display modes.
InitRerun == InitWith({<<PlainInt>>}, Datasets, TRUE, TRUE, BOOLEAN, {30}, {7})

SpecRerun == InitRerun /\ [][NextRerun]_vars

\* The configured text widths and column widths of SpecWidths.
TextWidths == {5, 24, 30}
ColumnWidths == {1, 7}

\* Fields with short and with long display keys, at several table widths.
InitWidths ==
  InitWith({<<PlainInt>>, <<LevFloat, PlainInt>>}, FullDatasets, FALSE, FALSE,
           {FALSE}, TextWidths, ColumnWidths)

SpecWidths == InitWidths /\ [][Next]_vars

(***************************************************************************)
(* What a run shows.                                                       *)
(***************************************************************************)
Done(w) == pc[w] = "done"

\* The rows of the dataset and their number.
Rows == RowsOf(index, nw)
N == globalNumLocs

\* The columns of the table of rank w: <<header, gathered position>>.
Columns(w) ==
  UNION {{<<pages[w][p].locs[k], pages[w][p].idxs[k]>> :
            k \in 1..Len(pages[w][p].locs)} : p \in 1..Len(pages[w])}

\* What os_ shows of the pages pg: the headers and the rows of cells.
TableOf(pg) ==
  [p \in 1..Len(pg) |-> [locs |-> pg[p].locs, rows |-> pg[p].rows]]

\* The headers of the table of rank w.
Displayed(w) == {c[1] : c \in Columns(w)}

\* The position of row r in the gathered columns of rank w.
PositionOf(w, r) ==
  CHOOSE k \in 0..(Len(globalIndex[w]) - 1) : At(globalIndex[w], k) = r

\* The apply bit gathered for row r.
ApplyBit(w, r) == At(globalApply[w], PositionOf(w, r)) # 0

Kinds(w) == {log[w][k][1] : k \in 1..Len(log[w])}
Events(w) == {log[w][k] : k \in 1..Len(log[w])}

(***************************************************************************)
(* C1.  Every column of every page reads the cells at the gathered         *)
(* position that holds the header's original row number:                   *)
(* globalIndex[idx] = loc, also when the row numbers have gaps.  Stated of  *)
(* the runs in which no vector is read out of range.                       *)
(***************************************************************************)
C1_PositionHoldsHeader ==
  \A w \in Ranks : (Done(w) /\ oob[w] = {}) =>
    \A c \in Columns(w) :
      InRange(globalIndex[w], c[2]) /\ At(globalIndex[w], c[2]) = c[1]

(***************************************************************************)
(* C2.  A row is displayed if and only if its original row number lies in  *)
(* [min, max) and the apply bit gathered for that same row is set.  Stated *)
(* of the runs in which no vector is read out of range, with the bounds    *)
(* as line 238 and 239 make them.                                          *)
(***************************************************************************)
C2_DisplayedIffSelected ==
  \A w \in Ranks : (Done(w) /\ oob[w] = {}) =>
    \A r \in Rows :
      r \in Displayed(w) <=>
        (r >= locminOf(N) /\ r < locmaxOf(N) /\ ApplyBit(w, r))

(***************************************************************************)
(* C10. A maximum of 0 means no upper bound: with max = 0 and min = 0      *)
(* every row whose apply bit is set is displayed, also a row whose         *)
(* original row number is not below the number of gathered rows.           *)
(***************************************************************************)
C10_MaxZeroIsUnbounded ==
  (locmaxP = 0 /\ locminP = 0) =>
    \A w \in Ranks : Done(w) =>
      \A r \in Rows : ApplyBit(w, r) => r \in Displayed(w)

(***************************************************************************)
(* C3.  Every rank makes the same allGatherv calls in the same order, and  *)
(* no rank waits in a call that a rank which has ended never made.         *)
(***************************************************************************)
C3_SameGatherSequence ==
  \A w, v \in Ranks :
    /\ \A k \in 1..Min(Len(calls[w]), Len(calls[v])) :
         calls[w][k].tag = calls[v][k].tag
    /\ (pc[w] = "gather" /\ Terminal(v)) => Len(calls[v]) >= Len(calls[w])

(***************************************************************************)
(* C4.  As claimed: when the check of the bounds throws, the rank has made *)
(* no allGatherv call, fetched no field and written no note before it.     *)
(***************************************************************************)
C4_NoGatherBeforeThrow ==
  \A w \in Ranks :
    "badValue" \in Kinds(w) => Kinds(w) \subseteq {"banner", "badValue"}

(***************************************************************************)
(* C4, amended.  The check of the bounds comes after getAllData has        *)
(* fetched, gathered and noted every declared field, and before the apply  *)
(* vector and the row index are gathered and before any page is written:   *)
(* with the minimum above the maximum no rank gathers them or writes a     *)
(* page, and the rank that throws has handled every declared field.        *)
(***************************************************************************)
C4_ThrowAfterFieldsBeforeTable ==
  \A w \in Ranks :
    /\ locminOf(N) > locmaxOf(N) =>
         /\ Ev("gather", ApplyTag) \notin Events(w)
         /\ Ev("gather", IndexTag) \notin Events(w)
         /\ "table" \notin Kinds(w)
         /\ pages[w] = <<>>
    /\ "badValue" \in Kinds(w) =>
         /\ locminOf(N) > locmaxOf(N)
         /\ fi[w] > Len(fields)
         /\ log[w][Len(log[w])] = Ev("badValue", NoKey)
         /\ \A i \in 1..Len(fields) :
              (fields[i].has /\ Len(fields[i].channels) = 0
                 /\ ~isMultiLevelData(fields[i])) =>
                Ev("gather", FullName(fields[i])) \in Events(w)

\* A rank has thrown at the check of the bounds after gathering a field.
C4_Witness ==
  \E w \in Ranks :
    /\ pc[w] = "error"
    /\ "badValue" \in Kinds(w)
    /\ "gather" \in Kinds(w)

(***************************************************************************)
(* C9.  Every declared display key that the renderer prints no row for has *)
(* its note "<key> not present in filter data" in the output.              *)
(***************************************************************************)
\* The display keys a declared field stands for.
DeclaredKeys(f) ==
  IF Len(f.channels) > 0
  THEN {getVariableNameWithChannel(f, ich) : ich \in 0..(VarSize(f) - 1)}
  ELSE IF isMultiLevelData(f)
       THEN {getVariableNameAtLevel(f, l) : l \in f.levels}
       ELSE {FullName(f)}

PrintedKeys(w) ==
  LET ks == PrintedKeysFrom(1, filterData[w])
  IN {ks[k] : k \in 1..Len(ks)}

C9_OmittedKeyHasNote ==
  \A w \in Ranks :
    (fi[w] > Len(fields) /\ pc[w] \in {"printAllData", "gather", "sort", "done"}) =>
      \A i \in 1..Len(fields) : \A key \in DeclaredKeys(fields[i]) :
        key \notin PrintedKeys(w) => Ev("note", key) \in Events(w)

(***************************************************************************)
(* The bounds in force, written out: the minimum is clamped to the last    *)
(* position when it is not below the number of rows, a maximum of 0 stands *)
(* for the number of rows.                                                 *)
(***************************************************************************)
EffectiveMin == IF locminP >= N THEN N - 1 ELSE locminP
EffectiveMax == IF locmaxP = 0 THEN N ELSE locmaxP

\* Rank w is past the check of the bounds.
PastCheck(w) ==
  \/ pc[w] \in {"sort", "done", "crashed"}
  \/ Ev("gather", ApplyTag) \in Events(w)

(***************************************************************************)
(* C5.  As claimed: with the configured minimum above the configured       *)
(* maximum no rank passes the check of the bounds or writes a page.        *)
(***************************************************************************)
C5_ConfiguredMinAboveMaxFails ==
  locminP > locmaxP =>
    \A w \in Ranks : ~PastCheck(w) /\ pages[w] = <<>>

(***************************************************************************)
(* C5, amended.  With the minimum in force above the maximum in force, a   *)
(* rank that has handled its fields is at the check or has failed with the *)
(* configuration error, and writes no page; the error is raised in no      *)
(* other case.                                                             *)
(***************************************************************************)
C5_EffectiveMinAboveMaxFails ==
  \A w \in Ranks :
    /\ EffectiveMin > EffectiveMax =>
         /\ ~PastCheck(w)
         /\ pages[w] = <<>>
         /\ fi[w] > Len(fields) => pc[w] \in {"printAllData", "error"}
    /\ "badValue" \in Kinds(w) => EffectiveMin > EffectiveMax

\* The error is raised with the minimum clamped to the last position.
C5_Witness ==
  \E w \in Ranks :
    /\ pc[w] = "error"
    /\ "badValue" \in Kinds(w)
    /\ locminP >= N
    /\ N - 1 > locmaxP

(***************************************************************************)
(* C6.  As claimed: with equal configured bounds no row is selected, no    *)
(* page is printed and no error is raised, whatever the bound.             *)
(***************************************************************************)
C6_EqualBoundsSelectNothing ==
  locminP = locmaxP =>
    \A w \in Ranks : pc[w] \notin {"error", "crashed"} /\ pages[w] = <<>>

(***************************************************************************)
(* C6, amended.  With equal configured bounds that lie strictly between 0  *)
(* and the number of rows, no row is selected, no page is printed and no   *)
(* error is raised.                                                        *)
(***************************************************************************)
C6_EqualInnerBoundsSelectNothing ==
  (locminP = locmaxP /\ 0 < locminP /\ locminP < N) =>
    \A w \in Ranks :
      /\ pc[w] \notin {"error", "crashed"}
      /\ pages[w] = <<>>
      /\ oob[w] = {}

\* A run has ended with equal inner bounds on a row that exists and is
\* selected by the apply vector.
C6_Witness ==
  \E w \in Ranks :
    /\ Done(w)
    /\ locminP = locmaxP /\ 0 < locminP /\ locminP < N
    /\ locminP \in Rows
    /\ applyRows = Rows

C8_SameTableForEveryLayout ==
  (~printRank0 /\ runNo > 1 /\ Done(0) /\ prev.pc = "done") =>
    TableOf(pages[0]) = TableOf(prev.pages)

\* The same, of the invocations that read no vector out of range.
C8_SameTableWithoutOob ==
  (~printRank0 /\ runNo > 1 /\ Done(0) /\ prev.pc = "done"
     /\ oob[0] = {} /\ prev.oob = {}) =>
    TableOf(pages[0]) = TableOf(prev.pages)

(***************************************************************************)
(* C11.  For a field with several channels: a channel whose fetch failed   *)
(* has its note and no cache entry; once the rank has left the field every *)
(* other channel is cached; and a cached channel holds the column gathered *)
(* from that channel on every rank, as if the failing one were not         *)
(* declared.                                                               *)
(***************************************************************************)
\* The column of channel ich of f gathered over all ranks.
ChannelColumn(f, ich) == Concat([v \in Ranks |-> LocalColumn(f, ich, v)], 0, nw - 1)

\* Rank w has left the channel loop of field i.
PastField(w, i) ==
  \/ fi[w] > i /\ pc[w] # "start"
  \/ Terminal(w) /\ pc[w] # "error"

C11_OtherChannelsCachedAsAlone ==
  \A w \in Ranks : \A i \in 1..Len(fields) :
    LET f == fields[i]
    IN (f.has /\ f.dtype \in ValidDtypes /\ Len(f.channels) > 1) =>
         \A ich \in 0..(VarSize(f) - 1) :
           LET key == getVariableNameWithChannel(f, ich)
           IN /\ Ev("note", key) \in Events(w) => key \notin DOMAIN filterData[w]
              /\ PastField(w, i) =>
                   (Ev("note", key) \in Events(w) \/ key \in DOMAIN filterData[w])
              /\ key \in DOMAIN filterData[w] =>
                   filterData[w][key] = ChannelColumn(f, ich)

\* The same without the content of the cached columns.
C11_NoteOrEntry ==
  \A w \in Ranks : \A i \in 1..Len(fields) :
    LET f == fields[i]
    IN (f.has /\ f.dtype \in ValidDtypes /\ Len(f.channels) > 1) =>
         \A ich \in 0..(VarSize(f) - 1) :
           LET key == getVariableNameWithChannel(f, ich)
           IN /\ Ev("note", key) \in Events(w) => key \notin DOMAIN filterData[w]
              /\ PastField(w, i) =>
                   (Ev("note", key) \in Events(w) \/ key \in DOMAIN filterData[w])

(***************************************************************************)
(* C12.  For the gathered row index of a rank, whose N entries are         *)
(* pairwise distinct, sortIndices is a bijection on the positions 0..N-1   *)
(* and globalIndex[sortIndices[0]], ..., globalIndex[sortIndices[N-1]] is  *)
(* strictly ascending and holds exactly the row numbers of the dataset:    *)
(* gaps are kept, not filled.                                              *)
(***************************************************************************)
\* Rank w has gathered the row index and reached the sort of line 271.
Sorted(w) == pc[w] \in {"sort", "done", "crashed"}

C12_SortIndicesIsAscendingBijection ==
  \A w \in Ranks :
    Sorted(w) =>
      LET gi == globalIndex[w]
          sidx == sortIndicesOf(gi, N)
          perm == permutedGlobalIndexOf(gi, sidx, N)
      IN /\ Len(gi) = N
         /\ Len(sidx) = N
         /\ {sidx[k] : k \in 1..N} = 0..(N - 1)
         /\ Ascending(perm)
         /\ {perm[k] : k \in 1..N} = Rows

\* A rank has printed from an unsorted gathered index of three rows with a gap.
C12_Witness ==
  \E w \in Ranks :
    /\ Done(w)
    /\ N = 3
    /\ ~Ascending(globalIndex[w])
    /\ Rows # 0..(N - 1)
    /\ sortIndicesOf(globalIndex[w], N) # <<0, 1, 2>>

(***************************************************************************)
(* C13.  Every page holds at least one column and at most                  *)
(* floor((maxTextWidth - longestKey) / (columnWidth + 3)) columns, also    *)
(* when maxTextWidth - longestKey is smaller than columnWidth + 3.         *)
(***************************************************************************)
\* The longest display key of the table of rank w.
LongestKey(w) == getMaxVariableNameLength(filterData[w])

\* floor((maxTextWidth - longestKey) / (columnWidth + 3))
ColumnsThatFit(w) == (maxTextWidth - LongestKey(w)) \div (columnWidth + 3)

PageSizes(w) == {Len(pages[w][p].locs) : p \in 1..Len(pages[w])}

C13_PageSizeWithinFloor ==
  \A w \in Ranks :
    Done(w) => \A n \in PageSizes(w) : 1 <= n /\ n <= ColumnsThatFit(w)

(***************************************************************************)
(* C13, amended.  Every page holds at least one column and at most         *)
(* max(floor((maxTextWidth - longestKey) / (columnWidth + 3)), 1) columns; *)
(* when fewer than one column fits, every page holds exactly one.          *)
(***************************************************************************)
C13_PageSizeWithinFloorOrOne ==
  \A w \in Ranks :
    Done(w) =>
      /\ \A n \in PageSizes(w) : 1 <= n /\ n <= Max(ColumnsThatFit(w), 1)
      /\ ColumnsThatFit(w) < 1 => PageSizes(w) \subseteq {1}

\* A table of several pages although less than one column fits, and a
\* table with a full page of two columns followed by a shorter one.
C13_Witness ==
  \E w \in Ranks :
    /\ Done(w)
    /\ Len(pages[w]) >= 2
    /\ \/ maxTextWidth - LongestKey(w) < columnWidth + 3
       \/ ColumnsThatFit(w) = 2 /\ PageSizes(w) = {1, 2}

(***************************************************************************)
(* C14.  While a rank selects and prints, every index it uses to read      *)
(* sortIndices, globalApply, globalIndex and the cached columns lies in    *)
(* 0..N-1, also when original row numbers are not below N.                 *)
(***************************************************************************)
C14_EveryReadInRange ==
  \A w \in Ranks : Sorted(w) => oob[w] = {}

\* The same, of the datasets from which no row was excluded upstream.
C14_EveryReadInRangeWithoutGaps ==
  \A w \in Ranks : (Sorted(w) /\ Rows = 0..(N - 1)) => oob[w] = {}

(***************************************************************************)
(* ObsSfcCorrected (src/src/ufo/operators/sfccorrected/ObsSfcCorrected.cc):*)
(* the constructor creates one operator per operator variable, simulateObs *)
(* runs them and fills the observation vector.                             *)
(***************************************************************************)
MaxVars == 3       \* simulated variables of the ObsSpace
MaxLocs == 2       \* locations of the observation vector

VarNames ==
  {"airTemperatureAt2M", "relativeHumidityAt2M", "windEastwardAt10M",
   "windNorthwardAt10M"}

\* The lists of 1..MaxVars distinct variables.
VarLists ==
  {s \in UNION {[1..k -> VarNames] : k \in 1..MaxVars} :
     \A i, j \in 1..Len(s) : i # j => s[i] # s[j]}

\* oops::Variables::find: the 0-based index of var in the list.
Find(list, var) == CHOOSE i \in 0..(Len(list) - 1) : At(list, i) = var

\* The variables of a list.
Members(list) == {list[k] : k \in 1..Len(list)}

\* getOperatorVariables: the operator variables are the configured ones, or
\* all simulated variables; the indices are their indices in the list of
\* all simulated variables.
getOperatorVariables(param, simulated) ==
  IF param.set
  THEN [vars |-> param.list,
        indices |-> [k \in 1..Len(param.list) |-> Find(simulated, param.list[k])]]
  ELSE [vars |-> simulated,
        indices |-> [k \in 1..Len(simulated) |-> k - 1]]

\* SurfaceOperatorFactory::create(var + "_" + methodname)
SurfaceOperator(var) == [variable |-> var]

VarCode(var) ==
  CASE var = "airTemperatureAt2M" -> 1
    [] var = "relativeHumidityAt2M" -> 2
    [] var = "windEastwardAt10M" -> 3
    [] var = "windNorthwardAt10M" -> 4

\* What the operator of var simulates at location jloc.
Simulated(var, jloc) == 100 * VarCode(var) + jloc

\* SurfaceOperatorBase::simobs: hofx is filled at every location.
simobs(oper, n) == [k \in 1..n |-> Simulated(oper.variable, k - 1)]

\* The observation vector before simulateObs.
InitialOvec(n) == [i \in 1..n |-> -i]

\* PrintFilterData is not configured.
NoPrintFilterData ==
  /\ nw = 1
  /\ fields = <<>>
  /\ index = OnAll(1, <<>>)
  /\ applyRows = {}
  /\ locminP = 0
  /\ locmaxP = 0
  /\ printRank0 = FALSE
  /\ maxTextWidth = 0
  /\ columnWidth = 0
  /\ pc = OnAll(1, "none")
  /\ fi = OnAll(1, 1)
  /\ si = OnAll(1, 0)
  /\ calls = OnAll(1, <<>>)
  /\ filterData = OnAll(1, <<>>)
  /\ globalApply = OnAll(1, <<>>)
  /\ globalIndex = OnAll(1, <<>>)
  /\ log = OnAll(1, <<>>)
  /\ pages = OnAll(1, <<>>)
  /\ oob = OnAll(1, {})
  /\ runNo = 1
  /\ prev = [pc |-> "none", pages |-> <<>>, oob |-> {}]

InitSfc ==
  /\ NoPrintFilterData
  /\ simulatedVars \in VarLists
  /\ variablesParam \in
       {[set |-> FALSE, list |-> <<>>]} \cup
       {[set |-> TRUE, list |-> l] :
          l \in {v \in VarLists : Members(v) \subseteq Members(simulatedVars)}}
  /\ ovecNlocs \in 0..MaxLocs
  /\ sfcPc = "new"
  /\ operatorVars_ = <<>>
  /\ operatorVarIndices_ = <<>>
  /\ operators_ = <<>>
  /\ jpos = 0
  /\ hofx = <<>>
  /\ ovec = InitialOvec(ovecNlocs * Len(simulatedVars))
  /\ used = <<>>

\* Lines 29-58: the constructor.
ObsSfcCorrected ==
  /\ sfcPc = "new"
  /\ LET ov == getOperatorVariables(variablesParam, simulatedVars)
     IN /\ operatorVars_' = ov.vars
        /\ operatorVarIndices_' = ov.indices
        /\ operators_' = [k \in 1..Len(ov.vars) |-> SurfaceOperator(ov.vars[k])]
  /\ sfcPc' = "constructed"
  /\ UNCHANGED <<simulatedVars, variablesParam, ovecNlocs, jpos, hofx, ovec, used>>
  /\ UNCHANGED filterVars

\* Lines 68-72: simulateObs is entered, hofx is allocated.
simulateObs ==
  /\ sfcPc = "constructed"
  /\ sfcPc' = "loop"
  /\ jpos' = 0
  /\ hofx' = [k \in 1..ovecNlocs |-> 0]
  /\ UNCHANGED <<simulatedVars, variablesParam, ovecNlocs, operatorVars_,
                 operatorVarIndices_, operators_, ovec, used>>
  /\ UNCHANGED filterVars

\* ovec with hofx written at jloc * nvars + jvar for every jloc (lines 78-81).
Populated(ov, h, jvar) ==
  LET nvars == Len(simulatedVars)
  IN [i \in 1..Len(ov) |->
        IF (i - 1) % nvars = jvar THEN h[((i - 1) \div nvars) + 1] ELSE ov[i]]

\* Lines 73-82: one pass of the loop over operatorVarIndices_.  When jvar
\* is not below operators_.size() the read of operators_[jvar] is out of
\* range: the call through what was read crashes, or leaves in hofx what
\* was there, or what some operator computes.
SimulateVariable ==
  /\ sfcPc = "loop"
  /\ jpos < Len(operatorVarIndices_)
  /\ LET jvar == At(operatorVarIndices_, jpos)
     IN IF InRange(operators_, jvar)
        THEN LET oper == At(operators_, jvar)
                 h == simobs(oper, ovecNlocs)
             IN /\ hofx' = h
                /\ ovec' = Populated(ovec, h, jvar)
                /\ used' = Append(used, [jvar |-> jvar, inRange |-> TRUE,
                                         variable |-> oper.variable])
                /\ sfcPc' = "loop"
                /\ jpos' = jpos + 1
        ELSE \E crash \in BOOLEAN :
               \E h \in {hofx} \cup {simobs(SurfaceOperator(v), ovecNlocs) : v \in VarNames} :
                 /\ used' = Append(used, [jvar |-> jvar, inRange |-> FALSE,
                                          variable |-> "none"])
                 /\ IF crash
                    THEN /\ h = hofx
                         /\ sfcPc' = "crashed"
                         /\ UNCHANGED <<hofx, ovec, jpos>>
                    ELSE /\ hofx' = h
                         /\ ovec' = Populated(ovec, h, jvar)
                         /\ sfcPc' = "loop"
                         /\ jpos' = jpos + 1
  /\ UNCHANGED <<simulatedVars, variablesParam, ovecNlocs, operatorVars_,
                 operatorVarIndices_, operators_>>
  /\ UNCHANGED filterVars

\* Lines 83-84: the loop is over.
SimulateObsReturns ==
  /\ sfcPc = "loop"
  /\ jpos = Len(operatorVarIndices_)
  /\ sfcPc' = "finished"
  /\ UNCHANGED <<simulatedVars, variablesParam, ovecNlocs, operatorVars_,
                 operatorVarIndices_, operators_, jpos, hofx, ovec, used>>
  /\ UNCHANGED filterVars

NextSfc ==
  \/ ObsSfcCorrected
  \/ simulateObs
  \/ SimulateVariable
  \/ SimulateObsReturns

SpecSfc == InitSfc /\ [][NextSfc]_vars

(***************************************************************************)
(* C15.  simulateObs computes every operator variable with the operator    *)
(* the constructor created for it, reading operators_ below its size, and  *)
(* writes the result to ovec[jloc * nvars + j], j being the index of the   *)
(* variable among the simulated variables; the entries of the other        *)
(* variables keep their values.  Also when the operator variables are a    *)
(* proper subset of the simulated variables.                               *)
(***************************************************************************)
\* ovec is what the claim says it is after simulateObs.
OvecAsClaimed ==
  LET nvars == Len(simulatedVars)
  IN \A jloc \in 0..(ovecNlocs - 1) : \A j \in 0..(nvars - 1) :
       LET idx == jloc * nvars + j
           var == At(simulatedVars, j)
       IN At(ovec, idx) = IF var \in Members(operatorVars_)
                          THEN Simulated(var, jloc)
                          ELSE At(InitialOvec(Len(ovec)), idx)

C15_EachVariableByItsOwnOperator ==
  /\ sfcPc # "crashed"
  /\ \A k \in 1..Len(used) :
       /\ used[k].inRange
       /\ used[k].jvar < Len(operators_)
       /\ used[k].variable = operatorVars_[k]
  /\ sfcPc = "finished" => OvecAsClaimed

\* The same, when every operator variable stands at the same position among
\* the simulated variables as among the operator variables.
C15_HoldsWhenPositionsAgree ==
  (sfcPc # "new" /\ \A k \in 1..Len(operatorVarIndices_) : operatorVarIndices_[k] = k - 1) =>
    C15_EachVariableByItsOwnOperator

====
